---- MODULE Spec2Model ----
(***************************************************************************)
(* A model of two vendored libc headers:                                   *)
(*   lib/libc/include/any-macos-any/assert.h   (the assert macro)          *)
(*   lib/libc/include/generic-netbsd/fts.h     (FTS / FTSENT constants)    *)
(*                                                                         *)
(* assert.h is modelled as a straight-line translation unit: every line is *)
(* either an inclusion of <assert.h> (with or without NDEBUG defined) or   *)
(* an executed assert(e).  Textual order and execution order coincide.     *)
(***************************************************************************)
EXTENDS Integers, Sequences, FiniteSets, TLC

\* ------------------------------------------------------------------ bounds
\* Number of lines (inclusions and asserts) of the translation unit.
MaxLine == 4
\* Width, in bits, of the options words handed to the FTS option mask.
OptionBits == 10
\* Largest magnitude explored for the int field fts_level.
MaxLevel == 3
\* Largest content explored for the unsigned short fields of FTSENT.
MaxField == 16

\* ------------------------------------------------------------ assert.h state
VARIABLES
  predef,      \* compiler predefines: __GNUC__, __DARWIN_UNIX03, __FILE_NAME__
  macros,      \* macro table: bodies of assert and __ASSERT_FILE_NAME
  includes,    \* NDEBUG-defined flag of every inclusion of assert.h so far
  pc,          \* line about to be processed (__LINE__ of the next step)
  n,           \* program variable changed by the side effects of e
  calls,       \* invocations of the failure routine, in order
  running,     \* FALSE once the process has been terminated
  last,        \* what the most recent line did
\* ----------------------------------------------------------------- fts.h state
  word,        \* options word handed to the option mask
  fts_options, \* FTS.fts_options
  fts_level,   \* FTSENT.fts_level
  fts_info,    \* FTSENT.fts_info
  fts_flags,   \* FTSENT.fts_flags
  fts_instr    \* FTSENT.fts_instr

assertVars == <<predef, macros, includes, pc, n, calls, running, last>>
ftsVars    == <<word, fts_options>>
ftsentVars == <<fts_level, fts_info, fts_flags, fts_instr>>
vars == <<predef, macros, includes, pc, n, calls, running, last,
          word, fts_options, fts_level, fts_info, fts_flags, fts_instr>>

\* ------------------------------------------------------- the translation unit
\* __FILE__ is the path the file was compiled as, __FILE_NAME__ its last
\* component.
TUFile     == "src/main.c"
TUFileName == "main.c"

\* The expressions handed to assert: source text, scalar value, and the number
\* of increments of n one evaluation performs.
Exprs == [src : {"p != 0", "n++ < 2"}, val : {-1, 0, 1, 2}, inc : {0, 1}]
\* Enclosing functions (__func__).
Funcs == {"main", "f"}

Undefined == "undefined"

NoCall == [routine |-> "none", args |-> <<>>]

\* #e : the spelling of the argument, unevaluated.
Stringify(e) == e.src

\* C's unary ! on a scalar.
LogicalNot(v) == IF v = 0 THEN 1 ELSE 0

\* __builtin_expect(exp, c) yields exp; c is only a hint.
BuiltinExpect(exp, c) == exp

\* Expansion of the macro named by __ASSERT_FILE_NAME.
ExpandFileName(body) ==
  IF body = "__FILE_NAME__" THEN TUFileName
  ELSE IF body = "__FILE__" THEN TUFile
  ELSE Undefined

\* ------------------------------------------------------- the macro bodies
\* Each body yields the number of evaluations of e and the failure call made
\* (NoCall when none).

\* #define assert(e) ((void)0)
AssertNDEBUG_evaluating(e, file, line, func) ==
  [evals |-> 1,
   call  |-> IF e.val # 0 THEN NoCall
             ELSE [routine |-> "__assert", args |-> <<Stringify(e), file, line>>]]

AssertNDEBUG(e, file, line, func) ==
  [evals |-> 0, call |-> NoCall]

\* ((void) ((e) ? ((void)0) : __assert (#e, __ASSERT_FILE_NAME, __LINE__)))
AssertNonGnuc_inverted(e, file, line, func) ==
  [evals |-> 1,
   call  |-> IF e.val # 0
             THEN [routine |-> "__assert", args |-> <<Stringify(e), file, line>>]
             ELSE NoCall]

AssertNonGnuc(e, file, line, func) ==
  [evals |-> 1,
   call  |-> IF e.val # 0
             THEN NoCall
             ELSE [routine |-> "__assert", args |-> <<Stringify(e), file, line>>]]

\* (__builtin_expect(!(e), 0)
\*    ? __assert_rtn(__func__, __ASSERT_FILE_NAME, __LINE__, #e) : (void)0)
AssertUnix03_twice(e, file, line, func) ==
  [evals |-> 2,
   call  |-> IF BuiltinExpect(LogicalNot(e.val), 0) # 0
             THEN [routine |-> "__assert_rtn",
                   args |-> <<func, file, line, Stringify(e)>>]
             ELSE NoCall]

AssertUnix03(e, file, line, func) ==
  [evals |-> 1,
   call  |-> IF BuiltinExpect(LogicalNot(e.val), 0) # 0
             THEN [routine |-> "__assert_rtn",
                   args |-> <<func, file, line, Stringify(e)>>]
             ELSE NoCall]

\* (__builtin_expect(!(e), 0)
\*    ? __assert (#e, __ASSERT_FILE_NAME, __LINE__) : (void)0)
AssertGnuc_unnegated(e, file, line, func) ==
  [evals |-> 1,
   call  |-> IF BuiltinExpect(e.val, 0) # 0
             THEN [routine |-> "__assert", args |-> <<Stringify(e), file, line>>]
             ELSE NoCall]

AssertGnuc(e, file, line, func) ==
  [evals |-> 1,
   call  |-> IF BuiltinExpect(LogicalNot(e.val), 0) # 0
             THEN [routine |-> "__assert", args |-> <<Stringify(e), file, line>>]
             ELSE NoCall]

\* The three bodies defined when NDEBUG is not defined.
EnabledBodies == {"nongnuc", "unix03", "gnuc"}
DisabledBody  == "((void)0)"

\* Expansion of assert(e) under the body currently in the macro table.
ExpandAssert(body, e, file, line, func) ==
  IF body = DisabledBody   THEN AssertNDEBUG(e, file, line, func)
  ELSE IF body = "nongnuc" THEN AssertNonGnuc(e, file, line, func)
  ELSE IF body = "unix03"  THEN AssertUnix03(e, file, line, func)
  ELSE AssertGnuc(e, file, line, func)

\* Arguments of a failure call, by the routine's parameter order.
CallText(c) == IF c.routine = "__assert_rtn" THEN c.args[4] ELSE c.args[1]
CallFile(c) == c.args[2]
CallLine(c) == c.args[3]
CallFunc(c) == IF c.routine = "__assert_rtn" THEN c.args[1] ELSE Undefined
Called(c)   == c.routine # "none"

\* __assert and __assert_rtn are declared in <_assert.h>; they terminate the
\* process and never return to the caller.
FailureRoutineReturns_returning(c) == TRUE

FailureRoutineReturns(c) == FALSE

\* --------------------------------------------------- inclusion of assert.h
\* #ifdef __FILE_NAME__ ... #else ... #endif
FileNameChoice_always_FILE(pd) == "__FILE__"

FileNameChoice(pd) == IF pd.FILE_NAME THEN "__FILE_NAME__" ELSE "__FILE__"

\* #ifndef __GNUC__ ... #else #if __DARWIN_UNIX03 ... #else ... #endif #endif
BodyChoice(pd) ==
  IF ~pd.GNUC THEN "nongnuc"
  ELSE IF pd.DARWIN_UNIX03 THEN "unix03"
  ELSE "gnuc"

\* #ifdef NDEBUG ... #else ... #endif, applied to a macro table m.
DefineAssert(m, nd, pd) ==
  IF nd
  THEN [m EXCEPT !.assert = DisabledBody]
  ELSE [m EXCEPT !.ASSERT_FILE_NAME = FileNameChoice(pd),
                 !.assert = BodyChoice(pd)]

\* The whole header with an include guard: a second inclusion changes nothing.
IncludeAssertH_guarded(m, nd, pd) ==
  IF m.assert # Undefined THEN m ELSE DefineAssert(m, nd, pd)

\* The whole header: #undef assert, then the conditional definitions.
IncludeAssertH(m, nd, pd) ==
  DefineAssert([m EXCEPT !.assert = Undefined], nd, pd)

\* ----------------------------------------------------------------- actions
AssertInit ==
  /\ predef \in [GNUC : BOOLEAN, DARWIN_UNIX03 : BOOLEAN, FILE_NAME : BOOLEAN]
  /\ macros = [assert |-> Undefined, ASSERT_FILE_NAME |-> Undefined]
  /\ includes = <<>>
  /\ pc = 1
  /\ n = 0
  /\ calls = <<>>
  /\ running = TRUE
  /\ last = [kind |-> "none"]

\* Line pc is "#include <assert.h>", NDEBUG being defined iff nd.
Include(nd) ==
  /\ running
  /\ pc <= MaxLine
  /\ macros' = IncludeAssertH(macros, nd, predef)
  /\ includes' = Append(includes, nd)
  /\ pc' = pc + 1
  /\ last' = [kind |-> "include", line |-> pc]
  /\ UNCHANGED <<predef, n, calls, running>>

\* Line pc is "assert(e);" inside function func, and is executed.
ExecAssert(e, func) ==
  /\ running
  /\ pc <= MaxLine
  /\ macros.assert # Undefined
  /\ LET r == ExpandAssert(macros.assert, e,
                           ExpandFileName(macros.ASSERT_FILE_NAME), pc, func)
         alive == Called(r.call) => FailureRoutineReturns(r.call)
     IN /\ n' = n + r.evals * e.inc
        /\ calls' = IF Called(r.call) THEN Append(calls, r.call) ELSE calls
        /\ running' = alive
        /\ pc' = IF alive THEN pc + 1 ELSE pc
        /\ last' = [kind |-> "assert", body |-> macros.assert,
                    ndebug |-> includes[Len(includes)],
                    e |-> e, func |-> func, line |-> pc,
                    evals |-> r.evals, call |-> r.call,
                    n0 |-> n, calls0 |-> calls]
  /\ UNCHANGED <<predef, macros, includes>>

\* ---------------------------------------------------------------- fts.h
\* fts_open options.
FTS_COMFOLLOW  == 1
FTS_LOGICAL    == 2
FTS_NOCHDIR    == 4
FTS_NOSTAT     == 8
FTS_PHYSICAL   == 16
FTS_SEEDOT     == 32
FTS_XDEV       == 64
FTS_WHITEOUT   == 128
\* Valid user option mask (0x0ff).
FTS_OPTIONMASK_wide == 255 + 256

FTS_OPTIONMASK == 255
\* Private flags (0x100, 0x200).
FTS_NAMEONLY   == 256
FTS_STOP       == 512

FTS_ROOTPARENTLEVEL == -1
FTS_ROOTLEVEL       == 0

\* fts_info tags.
FTS_D       == 1
FTS_DC      == 2
FTS_DEFAULT == 3
FTS_DNR     == 4
FTS_DOT     == 5
FTS_DP      == 6
FTS_ERR     == 7
FTS_F       == 8
FTS_INIT    == 9
FTS_NS      == 10
FTS_NSOK    == 11
FTS_SL      == 12
FTS_SLNONE_dup == FTS_SL

FTS_SLNONE  == 13
FTS_W       == 14

\* fts_flags private flags.
FTS_DONTCHDIR == 1
FTS_SYMFOLLOW == 2
FTS_ISW       == 4

\* fts_set() instructions.
FTS_AGAIN   == 1
FTS_FOLLOW  == 2
FTS_NOINSTR == 3
FTS_SKIP    == 4

UserOptions  == <<FTS_COMFOLLOW, FTS_LOGICAL, FTS_NOCHDIR, FTS_NOSTAT,
                  FTS_PHYSICAL, FTS_SEEDOT, FTS_XDEV, FTS_WHITEOUT>>
PrivateFlags == <<FTS_NAMEONLY, FTS_STOP>>
InfoTags     == <<FTS_D, FTS_DC, FTS_DEFAULT, FTS_DNR, FTS_DOT, FTS_DP, FTS_ERR,
                  FTS_F, FTS_INIT, FTS_NS, FTS_NSOK, FTS_SL, FTS_SLNONE, FTS_W>>
EntFlags     == <<FTS_DONTCHDIR, FTS_SYMFOLLOW, FTS_ISW>>
Instrs       == <<FTS_AGAIN, FTS_FOLLOW, FTS_NOINSTR, FTS_SKIP>>

Range(s) == {s[i] : i \in 1..Len(s)}

\* C's & and | on non-negative ints.
RECURSIVE BitAnd(_, _)
BitAnd(a, b) ==
  IF a = 0 \/ b = 0 THEN 0
  ELSE (a % 2) * (b % 2) + 2 * BitAnd(a \div 2, b \div 2)

RECURSIVE BitOr(_, _)
BitOr(a, b) ==
  IF a = 0 THEN b
  ELSE IF b = 0 THEN a
  ELSE (IF a % 2 = 1 \/ b % 2 = 1 THEN 1 ELSE 0) + 2 * BitOr(a \div 2, b \div 2)

RECURSIVE Pow2(_)
Pow2(i) == IF i = 0 THEN 1 ELSE 2 * Pow2(i - 1)

RECURSIVE OrAll(_)
OrAll(s) == IF s = <<>> THEN 0 ELSE BitOr(s[1], OrAll(Tail(s)))

SingleBit(v) == \E i \in 0..15 : v = Pow2(i)

FtsInit ==
  /\ word = 0
  /\ fts_options = 0

\* fts.h defines no code that writes or checks an FTSENT, so a field may hold
\* any value of its type: fts_level is an int (the comment "depth (-1 to N)"
\* is not enforced by anything), and fts_info, fts_flags and fts_instr are
\* unsigned shorts, whether or not a tag is defined for the value.
LevelDomain == (0 - MaxLevel)..MaxLevel
FieldDomain == 0..MaxField

\* The tags of a tag space that denote the value v.
NamesOf(tags, v) == {i \in 1..Len(tags) : tags[i] = v}

\* Sum of the flags of s that "v & flag" finds set in v.
RECURSIVE FlagSum(_, _)
FlagSum(v, s) ==
  IF s = <<>> THEN 0
  ELSE (IF BitAnd(v, s[1]) # 0 THEN s[1] ELSE 0) + FlagSum(v, Tail(s))

\* An entry with every field zero; the state of the FTSENT fields in the
\* specifications that do not examine them.
FtsentZero ==
  /\ fts_level = 0
  /\ fts_info = 0
  /\ fts_flags = 0
  /\ fts_instr = 0

\* Any entry the declarations admit.
FtsentAny ==
  /\ fts_level \in LevelDomain
  /\ fts_info \in FieldDomain
  /\ fts_flags \in FieldDomain
  /\ fts_instr \in FieldDomain

\* An options word w is masked with the valid user option mask and stored.
MaskOptions(w) ==
  /\ word' = w
  /\ fts_options' = BitAnd(w, FTS_OPTIONMASK)

\* The entry examined next differs in one field, which holds any value of its
\* domain.
AnyLevel(l) ==
  /\ fts_level' = l
  /\ UNCHANGED <<fts_info, fts_flags, fts_instr>>

AnyInfo(v) ==
  /\ fts_info' = v
  /\ UNCHANGED <<fts_level, fts_flags, fts_instr>>

AnyFlags(v) ==
  /\ fts_flags' = v
  /\ UNCHANGED <<fts_level, fts_info, fts_instr>>

AnyInstr(v) ==
  /\ fts_instr' = v
  /\ UNCHANGED <<fts_level, fts_info, fts_flags>>

\* ----------------------------------------------------------- specifications
Init == AssertInit /\ FtsInit /\ FtsentZero

Next ==
  \/ \E nd \in BOOLEAN : Include(nd) /\ UNCHANGED <<ftsVars, ftsentVars>>
  \/ \E e \in Exprs, f \in Funcs :
        ExecAssert(e, f) /\ UNCHANGED <<ftsVars, ftsentVars>>

Spec == Init /\ [][Next]_vars

NextFts ==
  \E w \in 0..(Pow2(OptionBits) - 1) :
     MaskOptions(w) /\ UNCHANGED <<assertVars, ftsentVars>>

\* The fts.h specifications run under one fixed compiler configuration.
FixedPredef == [GNUC |-> TRUE, DARWIN_UNIX03 |-> TRUE, FILE_NAME |-> TRUE]

InitFts == Init /\ predef = FixedPredef

SpecFts == InitFts /\ [][NextFts]_vars

NextFtsent ==
  \/ \E l \in LevelDomain : AnyLevel(l) /\ UNCHANGED <<assertVars, ftsVars>>
  \/ \E v \in FieldDomain : AnyInfo(v) /\ UNCHANGED <<assertVars, ftsVars>>
  \/ \E v \in FieldDomain : AnyFlags(v) /\ UNCHANGED <<assertVars, ftsVars>>
  \/ \E v \in FieldDomain : AnyInstr(v) /\ UNCHANGED <<assertVars, ftsVars>>

InitFtsent == AssertInit /\ predef = FixedPredef /\ FtsInit /\ FtsentAny

SpecFtsent == InitFtsent /\ [][NextFtsent]_vars

TypeOK ==
  /\ pc \in 1..(MaxLine + 1)
  /\ Len(includes) < pc
  /\ macros.assert \in EnabledBodies \cup {DisabledBody, Undefined}
  /\ running \in BOOLEAN
  /\ word \in 0..(Pow2(OptionBits) - 1)

\* ------------------------------------------------------------------ claims
AfterAssert   == last.kind = "assert"
AfterEnabled  == AfterAssert /\ ~last.ndebug
AfterDisabled == AfterAssert /\ last.ndebug

\* C1: with NDEBUG undefined at the most recent inclusion, assert(e) invokes
\* the failure routine iff e is false, and the invocation carries #e, the file
\* name and the line of the assert.
C1_FailureIffFalse ==
  AfterEnabled =>
    /\ Called(last.call) <=> (last.e.val = 0)
    /\ Called(last.call) =>
         /\ CallText(last.call) = last.e.src
         /\ CallFile(last.call) \in {TUFile, TUFileName}
         /\ CallLine(last.call) = last.line
         /\ calls = Append(last.calls0, last.call)
    /\ ~Called(last.call) => calls = last.calls0

C1_Witness ==
  /\ AfterEnabled
  /\ last.e.val = 0
  /\ Called(last.call)
  /\ last.line > 1

\* C2: with NDEBUG defined at the most recent inclusion, assert(e) is
\* ((void)0): e is not evaluated, the failure routine is not invoked and the
\* program state is unchanged, whatever e is.
C2_DisabledIsNoOp ==
  AfterDisabled =>
    /\ last.body = DisabledBody
    /\ last.evals = 0
    /\ ~Called(last.call)
    /\ n = last.n0
    /\ calls = last.calls0
    /\ running

C2_Witness ==
  /\ AfterDisabled
  /\ last.e.val = 0
  /\ last.e.inc = 1

\* C3: with diagnostics enabled, a false assert terminates the process; once
\* the failure routine has been invoked no later line is processed, so the
\* failing assert stays the most recent step.
C3_FailureTerminates ==
  /\ (AfterEnabled /\ last.e.val = 0) => (~running /\ pc = last.line)
  /\ calls # <<>> =>
       /\ ~running
       /\ Len(calls) = 1
       /\ AfterAssert
       /\ last.call = calls[1]
       /\ pc = CallLine(calls[1])
  /\ ~running => calls # <<>>

C3_Witness ==
  /\ calls # <<>>
  /\ ~running
  /\ pc < MaxLine

\* C4: after any sequence of inclusions the definition of assert in effect is
\* the one selected by NDEBUG at the most recent inclusion, and an executed
\* assert behaves according to the inclusion that precedes it.
C4_LastInclusionDecides ==
  /\ includes = <<>> => macros.assert = Undefined
  /\ includes # <<>> =>
       IF includes[Len(includes)]
       THEN macros.assert = DisabledBody
       ELSE /\ macros.assert \in EnabledBodies
            /\ (macros.assert = "nongnuc") <=> ~predef.GNUC
            /\ (macros.assert = "unix03") <=> (predef.GNUC /\ predef.DARWIN_UNIX03)
  /\ AfterAssert =>
       /\ last.body = macros.assert
       /\ last.ndebug = includes[Len(includes)]
       /\ last.ndebug => (last.body = DisabledBody /\ last.evals = 0)
       /\ ~last.ndebug => (last.body \in EnabledBodies /\ last.evals = 1)

\* An assert with a side effect ran under the first, diagnostics-enabled,
\* inclusion; line 3 then included the header again with NDEBUG defined.
C4_Witness ==
  /\ last.kind = "include"
  /\ last.line = 3
  /\ includes = <<FALSE, TRUE>>
  /\ n = 1
  /\ macros.assert = DisabledBody

\* C6: the three diagnostics-enabled bodies agree, for the e, file, line and
\* function of every executed assert, on whether the failure routine is
\* invoked (exactly when e is false) and on the text, file and line passed;
\* the __assert_rtn body differs by the function name and the argument order.
C6_VariantsEquivalent ==
  AfterEnabled =>
    LET file == ExpandFileName(macros.ASSERT_FILE_NAME)
        a == AssertNonGnuc(last.e, file, last.line, last.func)
        b == AssertUnix03(last.e, file, last.line, last.func)
        c == AssertGnuc(last.e, file, last.line, last.func)
    IN /\ Called(a.call) <=> (last.e.val = 0)
       /\ Called(b.call) <=> (last.e.val = 0)
       /\ Called(c.call) <=> (last.e.val = 0)
       /\ a.evals = b.evals /\ b.evals = c.evals
       /\ last.e.val = 0 =>
            /\ a.call.routine = "__assert"
            /\ b.call.routine = "__assert_rtn"
            /\ c.call.routine = "__assert"
            /\ a.call.args = <<last.e.src, file, last.line>>
            /\ c.call.args = a.call.args
            /\ b.call.args = <<last.func, file, last.line, last.e.src>>
            /\ CallText(a.call) = CallText(b.call)
            /\ CallFile(a.call) = CallFile(b.call)
            /\ CallLine(a.call) = CallLine(b.call)
            /\ CallFunc(b.call) = last.func
       /\ last.call = ExpandAssert(last.body, last.e, file, last.line, last.func).call
       /\ Called(last.call) <=> Called(a.call)

C6_Witness ==
  /\ AfterEnabled
  /\ last.body = "unix03"
  /\ last.e.val = 0
  /\ last.call.routine = "__assert_rtn"
  /\ last.call.args[1] = last.func

\* C7: with diagnostics enabled every executed assert(e) evaluates e exactly
\* once, so its side effects occur once; when e is true nothing else happens
\* and execution continues with the next line.
C7_EvaluatedOnce ==
  AfterEnabled =>
    /\ last.evals = 1
    /\ n = last.n0 + last.e.inc
    /\ last.e.val # 0 =>
         /\ ~Called(last.call)
         /\ calls = last.calls0
         /\ running
         /\ pc = last.line + 1

C7_Witness ==
  /\ AfterEnabled
  /\ last.e.val # 0
  /\ last.e.inc = 1
  /\ last.n0 = 1
  /\ n = 2

\* C8: a failing assert reports __FILE_NAME__ when the compiler defines it at
\* inclusion and __FILE__ otherwise, in every enabled body; an inclusion with
\* NDEBUG defined does not make the choice.
C8_FileNameChoice ==
  /\ (AfterAssert /\ Called(last.call)) =>
       CallFile(last.call) = IF predef.FILE_NAME THEN TUFileName ELSE TUFile
  /\ macros.ASSERT_FILE_NAME # Undefined =>
       macros.ASSERT_FILE_NAME =
          IF predef.FILE_NAME THEN "__FILE_NAME__" ELSE "__FILE__"
  /\ (macros.ASSERT_FILE_NAME = Undefined) <=>
       (\A i \in 1..Len(includes) : includes[i])

C8_Witness ==
  /\ AfterAssert
  /\ Called(last.call)
  /\ predef.FILE_NAME
  /\ CallFile(last.call) = TUFileName
  /\ includes[1]

\* C5: FTS_OPTIONMASK is the or of the eight user options, each a distinct
\* single bit; FTS_NAMEONLY and FTS_STOP are distinct single bits outside the
\* mask, so a masked options word never holds a private flag.
C5_OptionMask ==
  /\ FTS_OPTIONMASK = OrAll(UserOptions)
  /\ Cardinality(Range(UserOptions)) = 8
  /\ \A o \in Range(UserOptions) : SingleBit(o)
  /\ Cardinality(Range(PrivateFlags)) = 2
  /\ \A p \in Range(PrivateFlags) :
       /\ SingleBit(p)
       /\ BitAnd(p, FTS_OPTIONMASK) = 0
       /\ BitAnd(fts_options, p) = 0
  /\ \A o \in Range(UserOptions) : BitAnd(fts_options, o) = BitAnd(word, o)

C5_Witness ==
  /\ BitAnd(word, FTS_NAMEONLY) = FTS_NAMEONLY
  /\ BitAnd(word, FTS_STOP) = FTS_STOP
  /\ fts_options = FTS_OPTIONMASK

\* The parts of C9 that concern the tag spaces and the two level constants:
\* a content of fts_info is denoted by exactly one tag when it lies in 1..14 and
\* by none otherwise, likewise fts_instr and 1..4; the fts_flags flags are
\* distinct single bits, so the flags found set in a content add up to the
\* content masked with their or; FTS_ROOTPARENTLEVEL = FTS_ROOTLEVEL - 1.
C9_Tags ==
  /\ Range(InfoTags) = 1..14
  /\ Cardinality(Range(InfoTags)) = Len(InfoTags)
  /\ Len(InfoTags) = 14
  /\ Cardinality(NamesOf(InfoTags, fts_info)) =
       IF fts_info \in 1..14 THEN 1 ELSE 0
  /\ Range(Instrs) = 1..4
  /\ Cardinality(Range(Instrs)) = Len(Instrs)
  /\ Len(Instrs) = 4
  /\ Cardinality(NamesOf(Instrs, fts_instr)) =
       IF fts_instr \in 1..4 THEN 1 ELSE 0
  /\ Cardinality(Range(EntFlags)) = 3
  /\ \A f \in Range(EntFlags) : SingleBit(f)
  /\ FlagSum(fts_flags, EntFlags) = BitAnd(fts_flags, OrAll(EntFlags))
  /\ FTS_ROOTPARENTLEVEL = FTS_ROOTLEVEL - 1
  /\ FTS_ROOTLEVEL = 0

\* C9 as claimed: the tag spaces are well-formed, FTS_ROOTPARENTLEVEL is one
\* less than FTS_ROOTLEVEL, and FTS_ROOTLEVEL is the lower bound of fts_level.
C9_Original ==
  /\ C9_Tags
  /\ fts_level >= FTS_ROOTLEVEL

\* C9 as amended: the tag spaces are well-formed and FTS_ROOTPARENTLEVEL is
\* one less than FTS_ROOTLEVEL, so an entry is at FTS_ROOTPARENTLEVEL exactly
\* when the level one further down is FTS_ROOTLEVEL; no lower bound of
\* fts_level is stated.
C9_TagSpaces ==
  /\ C9_Tags
  /\ (fts_level = FTS_ROOTPARENTLEVEL) <=> (fts_level + 1 = FTS_ROOTLEVEL)

\* An entry at the level of the root's parent whose fields hold the last tag,
\* the last instruction and every private flag.
C9_Witness ==
  /\ fts_level = FTS_ROOTPARENTLEVEL
  /\ fts_level < FTS_ROOTLEVEL
  /\ fts_info = FTS_W
  /\ fts_instr = FTS_SKIP
  /\ fts_flags = OrAll(EntFlags)

====
